---------------------------- MODULE Spec2Model ----------------------------
(***************************************************************************)
(* A model of cmd/ollama-proxy-metrics/main.go: proxyHandler, the six      *)
(* Prometheus series it updates, and the two JSON decodes it relies on.    *)
(*                                                                         *)
(* One handler invocation is a process with a program counter; every step  *)
(* of proxyHandler that is visible from outside (a metric update, a write  *)
(* to the client, the upstream call) is one action.  What the environment  *)
(* decides (the inbound request, what the upstream answers, where a read   *)
(* or a write fails) is fixed per handler in the initial state, so that a  *)
(* handler is deterministic once its scenario is known.                    *)
(***************************************************************************)
EXTENDS Integers, Sequences, FiniteSets, TLC

VARIABLES
    upstreamURL,  \* main.go:34   the parsed -upstream flag
    scn,          \* per handler: the request r, the upstream's and the client's behaviour
    pc,           \* per handler: the position in proxyHandler
    loc,          \* per handler: proxyHandler's local variables
    w,            \* per handler: the http.ResponseWriter
    sent,         \* per handler: the requests handed to httpClient.Do, in order
    reqTotal,     \* main.go:40   ollama_proxy_requests_total
    reqDuration,  \* main.go:48   ollama_proxy_request_duration_seconds (sample count)
    bytesIn,      \* main.go:57   ollama_proxy_request_bytes_in_total
    bytesOut,     \* main.go:65   ollama_proxy_response_bytes_out_total
    tokensIn,     \* main.go:73   ollama_proxy_prompt_tokens_total
    tokensOut,    \* main.go:81   ollama_proxy_completion_tokens_total
    log           \* per handler: history of the handler's externally visible steps

metrics == <<reqTotal, reqDuration, bytesIn, bytesOut, tokensIn, tokensOut>>
vars == <<upstreamURL, scn, pc, loc, w, sent, metrics, log>>

(***************************************************************************)
(* Bounds of the model.                                                    *)
(***************************************************************************)
\* Longest upstream response body, in bytes.
MaxRespLen == 2
\* Largest token count an upstream body carries (the smallest is -1).
MaxTokens == 2

(***************************************************************************)
(* JSON documents.  A body is kept as what encoding/json sees in it: its   *)
(* length in bytes, whether it is empty, syntactically invalid, a valid    *)
(* value that is not an object, or an object; and, for an object, the      *)
(* value under each of the four keys the proxy looks at.                   *)
(***************************************************************************)
Absent == [t |-> "absent", s |-> "", b |-> FALSE, n |-> 0]
Null == [t |-> "null", s |-> "", b |-> FALSE, n |-> 0]
Str(x) == [t |-> "string", s |-> x, b |-> FALSE, n |-> 0]
Bool(x) == [t |-> "bool", s |-> "", b |-> x, n |-> 0]
Num(x) == [t |-> "int", s |-> "", b |-> FALSE, n |-> x]
\* A JSON number that is no int64: 1.5, 1e2, or an integer beyond 64 bits.
NotInt64 == [t |-> "float", s |-> "", b |-> FALSE, n |-> 0]

Obj(len, model, stream, prompt, eval) ==
    [kind |-> "object", len |-> len, model |-> model, stream |-> stream,
     prompt_eval_count |-> prompt, eval_count |-> eval]
NonObj(kind, len) ==
    [kind |-> kind, len |-> len, model |-> Absent, stream |-> Absent,
     prompt_eval_count |-> Absent, eval_count |-> Absent]
\* r.Body == nil: nothing is read and bodyBuf stays nil.
NoBody == NonObj("none", 0)
EmptyDoc == NonObj("empty", 0)

(***************************************************************************)
(* encoding/json.Unmarshal into the two structs.  Unmarshal first checks   *)
(* the whole input for syntax and decodes nothing when that fails; a value *)
(* that is not an object cannot be stored in a struct; inside an object a  *)
(* key of the wrong type is reported as the error, skipped, and decoding   *)
(* goes on with the other keys; null leaves a field as it is.              *)
(***************************************************************************)
NilPtr == [isNil |-> TRUE, b |-> FALSE, n |-> 0]
BoolPtr(x) == [isNil |-> FALSE, b |-> x, n |-> 0]
Int64Ptr(x) == [isNil |-> FALSE, b |-> FALSE, n |-> x]

\* Mutant: a decode that reports an error leaves the struct untouched.
UnmarshalRequestPayload_AllOrNothing(doc) ==
    IF \/ doc.kind # "object"
       \/ doc.model.t \notin {"absent", "null", "string"}
       \/ doc.stream.t \notin {"absent", "null", "bool"}
    THEN [Model |-> "", Stream |-> NilPtr, err |-> TRUE]
    ELSE [Model |-> IF doc.model.t = "string" THEN doc.model.s ELSE "",
          Stream |-> IF doc.stream.t = "bool" THEN BoolPtr(doc.stream.b) ELSE NilPtr,
          err |-> FALSE]

UnmarshalRequestPayload(doc) ==
    IF doc.kind # "object"
    THEN [Model |-> "", Stream |-> NilPtr, err |-> TRUE]
    ELSE [Model |-> IF doc.model.t = "string" THEN doc.model.s ELSE "",
          Stream |-> IF doc.stream.t = "bool" THEN BoolPtr(doc.stream.b) ELSE NilPtr,
          err |-> \/ doc.model.t \notin {"absent", "null", "string"}
                  \/ doc.stream.t \notin {"absent", "null", "bool"}]

UnmarshalOllamaResponseMetrics(doc) ==
    IF doc.kind # "object"
    THEN [EvalCount |-> NilPtr, PromptEvalCount |-> NilPtr, err |-> TRUE]
    ELSE [EvalCount |-> IF doc.eval_count.t = "int"
                        THEN Int64Ptr(doc.eval_count.n) ELSE NilPtr,
          PromptEvalCount |-> IF doc.prompt_eval_count.t = "int"
                              THEN Int64Ptr(doc.prompt_eval_count.n) ELSE NilPtr,
          err |-> \/ doc.eval_count.t \notin {"absent", "null", "int"}
                  \/ doc.prompt_eval_count.t \notin {"absent", "null", "int"}]

(***************************************************************************)
(* Small library functions the handler calls.                              *)
(***************************************************************************)
Digit == <<"0", "1", "2", "3", "4", "5", "6", "7", "8", "9">>
\* Mutant: only the last digit is kept.
Itoa_LastDigit(i) == Digit[(i % 10) + 1]

\* strconv.Itoa on a non-negative status code.
RECURSIVE Itoa(_)
Itoa(i) == IF i < 10 THEN Digit[i + 1] ELSE Itoa(i \div 10) \o Digit[(i % 10) + 1]

\* strings.TrimRight with a one-character cutset; a string is its characters.
RECURSIVE TrimRight(_, _)
TrimRight(s, c) ==
    IF s = <<>> THEN s
    ELSE IF s[Len(s)] = c THEN TrimRight(SubSeq(s, 1, Len(s) - 1), c) ELSE s

\* The string made of the characters of s.
RECURSIVE Concat(_)
Concat(s) == IF s = <<>> THEN "" ELSE s[1] \o Concat(Tail(s))

\* net/http status codes the handler names.
StatusBadRequest == 400
StatusInternalServerError == 500
StatusBadGateway == 502

\* net/http validMethod: NewRequestWithContext refuses a method that is not an
\* HTTP token; of the methods of the model these are the tokens.
ValidMethod(m) == m \in {"GET", "POST"}

\* http.Header.Get: the first value under the key, "" when there is none.
HeaderGet(hd, k) == IF k \in DOMAIN hd /\ hd[k] # <<>> THEN hd[k][1] ELSE ""
\* http.Header.Set: replace whatever is under the key by the one value.
HeaderSet(hd, k, v) ==
    IF k \in DOMAIN hd THEN [hd EXCEPT ![k] = <<v>>] ELSE hd @@ (k :> <<v>>)
\* Both header loops of the handler: Header.Add of every value of src to dst,
\* key by key, the values of a key in their order.
CopyHeader(dst, src) ==
    [k \in DOMAIN dst \cup DOMAIN src |->
        (IF k \in DOMAIN dst THEN dst[k] ELSE <<>>) \o
        (IF k \in DOMAIN src THEN src[k] ELSE <<>>)]
NoHeader == [k \in {} |-> <<>>]

(***************************************************************************)
(* Prometheus vectors.  A series exists once WithLabelValues has named it. *)
(***************************************************************************)
NoSeries == [k \in {} |-> 0]
Value(vec, key) == IF key \in DOMAIN vec THEN vec[key] ELSE 0
\* Mutant: Add stores its argument instead of adding it.
CounterAdd_LastWriteWins(vec, key, v) ==
    IF key \in DOMAIN vec THEN [vec EXCEPT ![key] = v] ELSE vec @@ (key :> v)

\* CounterVec.WithLabelValues(key...).Add(v), for v >= 0 (a negative v panics
\* inside Add, after WithLabelValues has created the series).
CounterAdd(vec, key, v) ==
    IF key \in DOMAIN vec THEN [vec EXCEPT ![key] = @ + v] ELSE vec @@ (key :> v)
\* Counter.Inc.
Inc(vec, key) == CounterAdd(vec, key, 1)
\* Histogram.Observe: of a histogram the model keeps its sample count.
Observe(vec, key) == CounterAdd(vec, key, 1)
\* WithLabelValues alone: the series is created with value 0.
WithLabelValues(vec, key) == CounterAdd(vec, key, 0)
RECURSIVE SumOver(_, _)
SumOver(vec, keys) ==
    IF keys = {} THEN 0
    ELSE LET k == CHOOSE x \in keys : TRUE IN vec[k] + SumOver(vec, keys \ {k})
\* The sum of all series of a vector.
Total(vec) == SumOver(vec, DOMAIN vec)


(***************************************************************************)
(* The client side: http.ResponseWriter.  status 0 means WriteHeader has   *)
(* not been called; written counts the body bytes the writer accepted.     *)
(* failAt is the number of body bytes the client accepts before its        *)
(* connection fails (-1: it never fails).                                  *)
(***************************************************************************)
NewResponseWriter == [status |-> 0, header |-> NoHeader, written |-> 0]
WriteHeader(ws, code) == IF ws.status = 0 THEN [ws EXCEPT !.status = code] ELSE ws
\* How many of k more bytes the writer accepts.
Accepted(ws, k, failAt) ==
    IF failAt >= 0 /\ ws.written + k > failAt
    THEN (IF failAt > ws.written THEN failAt - ws.written ELSE 0)
    ELSE k
\* w.Write of k bytes: an implicit WriteHeader(200) when none was written.
Write(ws, k, failAt) ==
    [WriteHeader(ws, 200) EXCEPT !.written = @ + Accepted(ws, k, failAt)]
\* http.Error: plain-text content type, the status, the message and a newline.
HttpError(ws, msg, code, failAt) ==
    Write(WriteHeader([ws EXCEPT !.header =
                          HeaderSet(HeaderSet(@, "Content-Type", "text/plain; charset=utf-8"),
                                    "X-Content-Type-Options", "nosniff")],
                      code),
          Len(msg) + 1, failAt)

(***************************************************************************)
(* proxyHandler.  The locals of one invocation, before its first step.     *)
(***************************************************************************)
NoRequest ==
    [Method |-> "", URL |-> [Scheme |-> "", Host |-> "", Path |-> "", RawQuery |-> ""],
     Header |-> NoHeader, Body |-> NoBody, Context |-> ""]
NewLocals ==
    [bodyBuf |-> NoBody, model |-> "", stream |-> TRUE, streamLabel |-> "",
     upReq |-> NoRequest, statusLabel |-> "", respBody |-> "none",
     respBuf |-> NoBody, m |-> UnmarshalOllamaResponseMetrics(NoBody), n |-> 0,
     reqBodyClosed |-> FALSE]

Event(op, key, v) == [op |-> op, key |-> key, v |-> v]
Logged(h, ev) == log' = [log EXCEPT ![h] = Append(@, ev)]

\* A return of the handler: its deferred Close calls run (main.go:141, 204).
Returned(l, r) ==
    [l EXCEPT !.reqBodyClosed = (r.Body.kind # "none"),
              !.respBody = IF @ = "open" THEN "closed" ELSE @]

\* Mutant: the error of io.ReadAll is dropped and the handler goes on.
ReadRequestBody_IgnoresError(h) ==
    /\ pc[h] = "ReadBody"
    /\ loc' = [loc EXCEPT ![h].bodyBuf = scn[h].r.Body]
    /\ pc' = [pc EXCEPT ![h] = "Sniff"]
    /\ UNCHANGED <<upstreamURL, scn, w, sent, metrics, log>>

\* main.go:134-148  read the whole inbound body, or answer 400
ReadRequestBody(h) ==
    LET r == scn[h].r IN
    /\ pc[h] = "ReadBody"
    /\ IF r.Body.kind # "none" /\ r.readErr
       THEN /\ w' = [w EXCEPT ![h] = HttpError(@, "failed to read request body",
                                                StatusBadRequest,
                                                scn[h].cl.writeFailAt)]
            /\ loc' = [loc EXCEPT ![h] = Returned(@, r)]
            /\ pc' = [pc EXCEPT ![h] = "done"]
            /\ Logged(h, Event("Error", <<>>, StatusBadRequest))
       ELSE /\ loc' = [loc EXCEPT ![h].bodyBuf = r.Body]
            /\ pc' = [pc EXCEPT ![h] = "Sniff"]
            /\ UNCHANGED <<w, log>>
    /\ UNCHANGED <<upstreamURL, scn, sent, metrics>>

\* Mutant: no default for an empty model.
ModelLabel_NoDefault(payload) == payload.Model

\* main.go:154-157  the model label
ModelLabel(payload) == IF payload.Model = "" THEN "unknown" ELSE payload.Model
\* main.go:159-162  the stream flag
StreamFlag(payload) == IF ~payload.Stream.isNil THEN payload.Stream.b ELSE TRUE
\* main.go:163-166
StreamLabel(stream) == IF ~stream THEN "false" ELSE "true"

\* main.go:150-166  best-effort decode of model and stream
SniffPayload(h) ==
    LET payload == UnmarshalRequestPayload(loc[h].bodyBuf) IN
    /\ pc[h] = "Sniff"
    /\ loc' = [loc EXCEPT ![h].model = ModelLabel(payload),
                          ![h].stream = StreamFlag(payload),
                          ![h].streamLabel = StreamLabel(StreamFlag(payload))]
    /\ pc' = [pc EXCEPT ![h] = "BytesIn"]
    /\ UNCHANGED <<upstreamURL, scn, w, sent, metrics, log>>

\* Mutant: the token series are not told apart by model.
Key2_NoModel(h) == <<scn[h].r.Path, "unknown">>

\* The label tuples of a handler's series.
Key3(h) == <<scn[h].r.Path, loc[h].model, loc[h].streamLabel>>
Key4(h) == <<scn[h].r.Path, loc[h].model, loc[h].statusLabel, loc[h].streamLabel>>
Key2(h) == <<scn[h].r.Path, loc[h].model>>

\* Mutant: requests are counted, not their bytes.
AddBytesIn_CountsRequests(h) ==
    /\ pc[h] = "BytesIn"
    /\ bytesIn' = CounterAdd(bytesIn, Key3(h), 1)
    /\ pc' = [pc EXCEPT ![h] = "NewRequest"]
    /\ Logged(h, Event("bytesIn", Key3(h), 1))
    /\ UNCHANGED <<upstreamURL, scn, loc, w, sent, reqTotal, reqDuration, bytesOut,
                   tokensIn, tokensOut>>

\* main.go:168
AddBytesIn(h) ==
    /\ pc[h] = "BytesIn"
    /\ bytesIn' = CounterAdd(bytesIn, Key3(h), loc[h].bodyBuf.len)
    /\ pc' = [pc EXCEPT ![h] = "NewRequest"]
    /\ Logged(h, Event("bytesIn", Key3(h), loc[h].bodyBuf.len))
    /\ UNCHANGED <<upstreamURL, scn, loc, w, sent, reqTotal, reqDuration, bytesOut,
                   tokensIn, tokensOut>>

\* Mutant: the query string is not carried over.
UpstreamTarget_NoQuery(base, r) ==
    [Scheme |-> base.Scheme, Host |-> base.Host,
     Path |-> Concat(TrimRight(base.Path, "/")) \o r.Path,
     RawQuery |-> ""]

\* main.go:171-173  base + path + query
UpstreamTarget(base, r) ==
    [Scheme |-> base.Scheme, Host |-> base.Host,
     Path |-> Concat(TrimRight(base.Path, "/")) \o r.Path,
     RawQuery |-> r.RawQuery]
\* main.go:181-190  every inbound header value, and a default Content-Type
UpstreamHeader(r) ==
    LET copied == CopyHeader(NoHeader, r.Header) IN
    IF HeaderGet(copied, "Content-Type") = ""
    THEN HeaderSet(copied, "Content-Type", "application/json")
    ELSE copied
\* Mutant: the upstream request does not carry the inbound request's context.
UpstreamRequest_BackgroundContext(base, r, bodyBuf) ==
    [Method |-> r.Method, URL |-> UpstreamTarget(base, r),
     Header |-> UpstreamHeader(r), Body |-> bodyBuf, Context |-> "background"]

\* main.go:175  the request handed to the client, under r.Context()
UpstreamRequest(base, r, bodyBuf) ==
    [Method |-> r.Method, URL |-> UpstreamTarget(base, r),
     Header |-> UpstreamHeader(r), Body |-> bodyBuf, Context |-> "request"]

\* net/http cancels r.Context() when the client's connection goes away; the
\* client of a request made under that context then gives up: Do returns an
\* error when the call is in progress, and the read of the response body that
\* follows k delivered bytes fails when the relay is in progress.
Abandoned(ctx, cl, phase, k) ==
    /\ ctx = "request"
    /\ cl.gone.phase = phase
    /\ phase = "relay" => cl.gone.after = k

\* main.go:170-190  build the upstream request, or answer 500
NewUpstreamRequest(h) ==
    LET r == scn[h].r IN
    /\ pc[h] = "NewRequest"
    /\ IF ~ValidMethod(r.Method)
       THEN /\ w' = [w EXCEPT ![h] = HttpError(@, "failed to create upstream request",
                                                StatusInternalServerError,
                                                scn[h].cl.writeFailAt)]
            /\ loc' = [loc EXCEPT ![h] = Returned(@, r)]
            /\ pc' = [pc EXCEPT ![h] = "done"]
            /\ Logged(h, Event("Error", <<>>, StatusInternalServerError))
       ELSE /\ loc' = [loc EXCEPT ![h].upReq =
                           UpstreamRequest(upstreamURL, r, loc[h].bodyBuf)]
            /\ pc' = [pc EXCEPT ![h] = "Do"]
            /\ UNCHANGED <<w, log>>
    /\ UNCHANGED <<upstreamURL, scn, sent, metrics>>

\* main.go:192-193  httpClient.Do returns an error: the transport failed, or
\* the call was given up.
CallFails(h) ==
    scn[h].up.err \/ Abandoned(loc[h].upReq.Context, scn[h].cl, "call", 0)

\* main.go:192-196, 204-206  the one upstream call
DoUpstream(h) ==
    LET up == scn[h].up IN
    /\ pc[h] = "Do"
    /\ sent' = [sent EXCEPT ![h] = Append(@, loc[h].upReq)]
    /\ IF CallFails(h)
       THEN /\ loc' = [loc EXCEPT ![h].statusLabel = Itoa(StatusBadGateway)]
            /\ pc' = [pc EXCEPT ![h] = "ErrReqTotal"]
       ELSE /\ loc' = [loc EXCEPT ![h].statusLabel = Itoa(up.StatusCode),
                                  ![h].respBody = "open"]
            /\ pc' = [pc EXCEPT ![h] = "WriteHeader"]
    /\ Logged(h, Event("Do", <<>>, IF CallFails(h) THEN 0 ELSE up.StatusCode))
    /\ UNCHANGED <<upstreamURL, scn, w, metrics>>

\* Mutant: the failed call is not counted.
ErrReqTotal_Uncounted(h) ==
    /\ pc[h] = "ErrReqTotal"
    /\ pc' = [pc EXCEPT ![h] = "ErrReqDuration"]
    /\ UNCHANGED <<upstreamURL, scn, loc, w, sent, metrics, log>>

\* main.go:198
ErrReqTotal(h) ==
    /\ pc[h] = "ErrReqTotal"
    /\ reqTotal' = Inc(reqTotal, Key4(h))
    /\ pc' = [pc EXCEPT ![h] = "ErrReqDuration"]
    /\ Logged(h, Event("reqTotal", Key4(h), 1))
    /\ UNCHANGED <<upstreamURL, scn, loc, w, sent, reqDuration, bytesIn, bytesOut,
                   tokensIn, tokensOut>>

\* main.go:199
ErrReqDuration(h) ==
    /\ pc[h] = "ErrReqDuration"
    /\ reqDuration' = Observe(reqDuration, Key3(h))
    /\ pc' = [pc EXCEPT ![h] = "ErrReply"]
    /\ Logged(h, Event("reqDuration", Key3(h), 1))
    /\ UNCHANGED <<upstreamURL, scn, loc, w, sent, reqTotal, bytesIn, bytesOut,
                   tokensIn, tokensOut>>

\* main.go:201-202
ErrReply(h) ==
    /\ pc[h] = "ErrReply"
    /\ w' = [w EXCEPT ![h] = HttpError(@, "upstream error", StatusBadGateway,
                                       scn[h].cl.writeFailAt)]
    /\ loc' = [loc EXCEPT ![h] = Returned(@, scn[h].r)]
    /\ pc' = [pc EXCEPT ![h] = "done"]
    /\ Logged(h, Event("Error", <<>>, StatusBadGateway))
    /\ UNCHANGED <<upstreamURL, scn, sent, metrics>>

\* Mutant: every response is buffered and parsed.
RelayEntry_AlwaysBuffered(stream) == "ReadAll"

\* main.go:216  which relay follows the status line
RelayEntry(stream) == IF ~stream THEN "ReadAll" ELSE "Copy"

\* main.go:208-216  upstream headers and status to the client
WriteRespHeader(h) ==
    LET up == scn[h].up IN
    /\ pc[h] = "WriteHeader"
    /\ w' = [w EXCEPT ![h] = WriteHeader([@ EXCEPT !.header = CopyHeader(@, up.Header)],
                                          up.StatusCode)]
    /\ pc' = [pc EXCEPT ![h] = RelayEntry(loc[h].stream)]
    /\ Logged(h, Event("WriteHeader", <<>>, up.StatusCode))
    /\ UNCHANGED <<upstreamURL, scn, loc, sent, metrics>>


\* io.ReadAll / io.Copy on resp.Body: the read that follows k delivered bytes fails.
ReadFails(up, k) == up.readFailAt = k
\* Mutant: Add takes any value.
AddPanics_Never(v) == FALSE

\* prometheus Counter.Add panics on a negative value.
AddPanics(v) == v < 0
\* A panic leaves the handler through its deferred calls; net/http recovers it.
Panicked(l, r) == Returned(l, r)

\* main.go:218-222  buffered mode: the whole upstream body, or give up
ReadAllResp(h) ==
    LET up == scn[h].up IN
    /\ pc[h] = "ReadAll"
    /\ IF \E k \in 0..up.Body.len :
             ReadFails(up, k) \/ Abandoned(loc[h].upReq.Context, scn[h].cl, "relay", k)
       THEN /\ loc' = [loc EXCEPT ![h] = Returned(@, scn[h].r)]
            /\ pc' = [pc EXCEPT ![h] = "done"]
            /\ Logged(h, Event("ReadAllFailed", <<>>, up.readFailAt))
       ELSE /\ loc' = [loc EXCEPT ![h].respBuf = up.Body]
            /\ pc' = [pc EXCEPT ![h] = "BufBytesOut"]
            /\ Logged(h, Event("ReadAll", <<>>, up.Body.len))
    /\ UNCHANGED <<upstreamURL, scn, w, sent, metrics>>

\* Mutant: the buffered body is written without being counted.
BufBytesOut_Skipped(h) ==
    /\ pc[h] = "BufBytesOut"
    /\ pc' = [pc EXCEPT ![h] = "BufTokensIn"]
    /\ UNCHANGED <<upstreamURL, scn, loc, w, sent, metrics, log>>

\* main.go:224
BufBytesOut(h) ==
    /\ pc[h] = "BufBytesOut"
    /\ bytesOut' = CounterAdd(bytesOut, Key3(h), loc[h].respBuf.len)
    /\ pc' = [pc EXCEPT ![h] = "BufTokensIn"]
    /\ Logged(h, Event("bytesOut", Key3(h), loc[h].respBuf.len))
    /\ UNCHANGED <<upstreamURL, scn, loc, w, sent, reqTotal, reqDuration, bytesIn,
                   tokensIn, tokensOut>>

\* Mutant: the decode error is not looked at.
TokensDecoded_IgnoresError(m) == TRUE

\* main.go:228  whether the token fields are looked at
TokensDecoded(m) == ~m.err

\* main.go:227-231  decode the body; prompt tokens
BufTokensIn(h) ==
    LET m == UnmarshalOllamaResponseMetrics(loc[h].respBuf) IN
    /\ pc[h] = "BufTokensIn"
    /\ IF ~TokensDecoded(m)
       THEN /\ loc' = [loc EXCEPT ![h].m = m]
            /\ pc' = [pc EXCEPT ![h] = "BufWrite"]
            /\ UNCHANGED <<tokensIn, log>>
       ELSE IF m.PromptEvalCount.isNil
       THEN /\ loc' = [loc EXCEPT ![h].m = m]
            /\ pc' = [pc EXCEPT ![h] = "BufTokensOut"]
            /\ UNCHANGED <<tokensIn, log>>
       ELSE IF AddPanics(m.PromptEvalCount.n)
       THEN /\ tokensIn' = WithLabelValues(tokensIn, Key2(h))
            /\ loc' = [loc EXCEPT ![h] = Panicked([@ EXCEPT !.m = m], scn[h].r)]
            /\ pc' = [pc EXCEPT ![h] = "panicked"]
            /\ Logged(h, Event("panic", Key2(h), m.PromptEvalCount.n))
       ELSE /\ tokensIn' = CounterAdd(tokensIn, Key2(h), m.PromptEvalCount.n)
            /\ loc' = [loc EXCEPT ![h].m = m]
            /\ pc' = [pc EXCEPT ![h] = "BufTokensOut"]
            /\ Logged(h, Event("tokensIn", Key2(h), m.PromptEvalCount.n))
    /\ UNCHANGED <<upstreamURL, scn, w, sent, reqTotal, reqDuration, bytesIn, bytesOut,
                   tokensOut>>

\* main.go:232-235  completion tokens
BufTokensOut(h) ==
    LET m == loc[h].m IN
    /\ pc[h] = "BufTokensOut"
    /\ IF m.EvalCount.isNil
       THEN /\ pc' = [pc EXCEPT ![h] = "BufWrite"]
            /\ UNCHANGED <<tokensOut, loc, log>>
       ELSE IF AddPanics(m.EvalCount.n)
       THEN /\ tokensOut' = WithLabelValues(tokensOut, Key2(h))
            /\ loc' = [loc EXCEPT ![h] = Panicked(@, scn[h].r)]
            /\ pc' = [pc EXCEPT ![h] = "panicked"]
            /\ Logged(h, Event("panic", Key2(h), m.EvalCount.n))
       ELSE /\ tokensOut' = CounterAdd(tokensOut, Key2(h), m.EvalCount.n)
            /\ pc' = [pc EXCEPT ![h] = "BufWrite"]
            /\ Logged(h, Event("tokensOut", Key2(h), m.EvalCount.n))
            /\ UNCHANGED loc
    /\ UNCHANGED <<upstreamURL, scn, w, sent, reqTotal, reqDuration, bytesIn, bytesOut,
                   tokensIn>>

\* main.go:237-239  the buffered body to the client; a failure is only logged
BufWrite(h) ==
    /\ pc[h] = "BufWrite"
    /\ w' = [w EXCEPT ![h] = Write(@, loc[h].respBuf.len, scn[h].cl.writeFailAt)]
    /\ pc' = [pc EXCEPT ![h] = "BufReqTotal"]
    /\ Logged(h, Event("Write", <<>>,
                       Accepted(w[h], loc[h].respBuf.len, scn[h].cl.writeFailAt)))
    /\ UNCHANGED <<upstreamURL, scn, loc, sent, metrics>>

\* main.go:242-243
BufReqTotal(h) ==
    /\ pc[h] = "BufReqTotal"
    /\ reqTotal' = Inc(reqTotal, Key4(h))
    /\ pc' = [pc EXCEPT ![h] = "BufReqDuration"]
    /\ Logged(h, Event("reqTotal", Key4(h), 1))
    /\ UNCHANGED <<upstreamURL, scn, loc, w, sent, reqDuration, bytesIn, bytesOut,
                   tokensIn, tokensOut>>

\* main.go:244-246
BufReqDuration(h) ==
    /\ pc[h] = "BufReqDuration"
    /\ reqDuration' = Observe(reqDuration, Key3(h))
    /\ loc' = [loc EXCEPT ![h] = Returned(@, scn[h].r)]
    /\ pc' = [pc EXCEPT ![h] = "done"]
    /\ Logged(h, Event("reqDuration", Key3(h), 1))
    /\ UNCHANGED <<upstreamURL, scn, w, sent, reqTotal, bytesIn, bytesOut,
                   tokensIn, tokensOut>>

\* io.Copy goes on: the next read delivers a byte and the client takes it.
CopyGoesOn(h) ==
    /\ ~ReadFails(scn[h].up, loc[h].n)
    /\ ~Abandoned(loc[h].upReq.Context, scn[h].cl, "relay", loc[h].n)
    /\ loc[h].n < scn[h].up.Body.len
    /\ Accepted(w[h], 1, scn[h].cl.writeFailAt) = 1

\* main.go:250  streaming mode: one more byte from upstream to the client
CopyByte(h) ==
    /\ pc[h] = "Copy"
    /\ CopyGoesOn(h)
    /\ w' = [w EXCEPT ![h] = Write(@, 1, scn[h].cl.writeFailAt)]
    /\ loc' = [loc EXCEPT ![h].n = @ + 1]
    /\ Logged(h, Event("Write", <<>>, 1))
    /\ UNCHANGED <<upstreamURL, scn, pc, sent, metrics>>

\* main.go:250-253  io.Copy returns: EOF, a failed read or a failed write
CopyEnd(h) ==
    /\ pc[h] = "Copy"
    /\ ~CopyGoesOn(h)
    /\ pc' = [pc EXCEPT ![h] = "StrBytesOut"]
    /\ Logged(h, Event("CopyEnd", <<>>, loc[h].n))
    /\ UNCHANGED <<upstreamURL, scn, loc, w, sent, metrics>>

\* Mutant: the length of the upstream body is added, not the bytes copied.
StrBytesOut_WholeBody(h) ==
    /\ pc[h] = "StrBytesOut"
    /\ bytesOut' = CounterAdd(bytesOut, Key3(h), scn[h].up.Body.len)
    /\ pc' = [pc EXCEPT ![h] = "StrReqTotal"]
    /\ Logged(h, Event("bytesOut", Key3(h), scn[h].up.Body.len))
    /\ UNCHANGED <<upstreamURL, scn, loc, w, sent, reqTotal, reqDuration, bytesIn,
                   tokensIn, tokensOut>>

\* main.go:255
StrBytesOut(h) ==
    /\ pc[h] = "StrBytesOut"
    /\ bytesOut' = CounterAdd(bytesOut, Key3(h), loc[h].n)
    /\ pc' = [pc EXCEPT ![h] = "StrReqTotal"]
    /\ Logged(h, Event("bytesOut", Key3(h), loc[h].n))
    /\ UNCHANGED <<upstreamURL, scn, loc, w, sent, reqTotal, reqDuration, bytesIn,
                   tokensIn, tokensOut>>

\* main.go:257-258
StrReqTotal(h) ==
    /\ pc[h] = "StrReqTotal"
    /\ reqTotal' = Inc(reqTotal, Key4(h))
    /\ pc' = [pc EXCEPT ![h] = "StrReqDuration"]
    /\ Logged(h, Event("reqTotal", Key4(h), 1))
    /\ UNCHANGED <<upstreamURL, scn, loc, w, sent, reqDuration, bytesIn, bytesOut,
                   tokensIn, tokensOut>>

\* main.go:259-260
StrReqDuration(h) ==
    /\ pc[h] = "StrReqDuration"
    /\ reqDuration' = Observe(reqDuration, Key3(h))
    /\ loc' = [loc EXCEPT ![h] = Returned(@, scn[h].r)]
    /\ pc' = [pc EXCEPT ![h] = "done"]
    /\ Logged(h, Event("reqDuration", Key3(h), 1))
    /\ UNCHANGED <<upstreamURL, scn, w, sent, reqTotal, bytesIn, bytesOut,
                   tokensIn, tokensOut>>

\* A step of one of the handlers.
Next ==
    \/ \E h \in DOMAIN scn : ReadRequestBody(h)
    \/ \E h \in DOMAIN scn : SniffPayload(h)
    \/ \E h \in DOMAIN scn : AddBytesIn(h)
    \/ \E h \in DOMAIN scn : NewUpstreamRequest(h)
    \/ \E h \in DOMAIN scn : DoUpstream(h)
    \/ \E h \in DOMAIN scn : ErrReqTotal(h)
    \/ \E h \in DOMAIN scn : ErrReqDuration(h)
    \/ \E h \in DOMAIN scn : ErrReply(h)
    \/ \E h \in DOMAIN scn : WriteRespHeader(h)
    \/ \E h \in DOMAIN scn : ReadAllResp(h)
    \/ \E h \in DOMAIN scn : BufBytesOut(h)
    \/ \E h \in DOMAIN scn : BufTokensIn(h)
    \/ \E h \in DOMAIN scn : BufTokensOut(h)
    \/ \E h \in DOMAIN scn : BufWrite(h)
    \/ \E h \in DOMAIN scn : BufReqTotal(h)
    \/ \E h \in DOMAIN scn : BufReqDuration(h)
    \/ \E h \in DOMAIN scn : CopyByte(h)
    \/ \E h \in DOMAIN scn : CopyEnd(h)
    \/ \E h \in DOMAIN scn : StrBytesOut(h)
    \/ \E h \in DOMAIN scn : StrReqTotal(h)
    \/ \E h \in DOMAIN scn : StrReqDuration(h)

\* The state when the handlers hs are called under one of the configurations
\* cfgs (an upstream base and the scenarios run against it): the registry is
\* fresh (main.go:40-93), nothing was written or sent.
InitOver(cfgs, hs) ==
    /\ \E c \in cfgs : upstreamURL = c.base /\ scn \in [hs -> c.scenarios]
    /\ pc = [h \in hs |-> "ReadBody"]
    /\ loc = [h \in hs |-> NewLocals]
    /\ w = [h \in hs |-> NewResponseWriter]
    /\ sent = [h \in hs |-> <<>>]
    /\ log = [h \in hs |-> <<>>]
    /\ reqTotal = NoSeries
    /\ reqDuration = NoSeries
    /\ bytesIn = NoSeries
    /\ bytesOut = NoSeries
    /\ tokensIn = NoSeries
    /\ tokensOut = NoSeries


(***************************************************************************)
(* The scenarios: inbound requests, upstream behaviours, client behaviours.*)
(***************************************************************************)
\* main.go:108  the default upstream, and two with a path of their own
DefaultBase == [Scheme |-> "http", Host |-> "127.0.0.1:11434", Path |-> <<>>]
PathBase == [Scheme |-> "http", Host |-> "ollama:11434", Path |-> <<"/", "o">>]
SlashBase == [Scheme |-> "http", Host |-> "ollama:11434", Path |-> <<"/", "o", "/", "/">>]

Request(method, path, query, header, body, readErr) ==
    [Method |-> method, Path |-> path, RawQuery |-> query, Header |-> header,
     Body |-> body, readErr |-> readErr]
TransportError ==
    [err |-> TRUE, StatusCode |-> 0, Header |-> NoHeader, Body |-> NoBody,
     readFailAt |-> -1]
Response(status, header, body, readFailAt) ==
    [err |-> FALSE, StatusCode |-> status, Header |-> header, Body |-> body,
     readFailAt |-> readFailAt]
\* The client: the body bytes it accepts before its connection fails, and
\* whether and when it goes away (during the upstream call, or during the
\* relay once the given number of upstream body bytes has been delivered).
StaysOn == [phase |-> "never", after |-> 0]
GoesAway(phase, after) == [phase |-> phase, after |-> after]
Client(writeFailAt) == [writeFailAt |-> writeFailAt, gone |-> StaysOn]
ClientGone(writeFailAt, gone) == [writeFailAt |-> writeFailAt, gone |-> gone]
Scenario(r, up, cl) == [r |-> r, up |-> up, cl |-> cl]

JSONHeader == "Content-Type" :> <<"application/json">>
\* Inbound header sets: none, the usual one, several values under one key, a
\* Content-Type line with an empty value, alone and followed by a second one.
InboundHeaders ==
    { NoHeader,
      JSONHeader,
      ("Content-Type" :> <<"text/plain">>) @@ ("X-Trace" :> <<"a", "b">>),
      "Accept" :> <<"*/*">>,
      "Content-Type" :> <<"">>,
      "Content-Type" :> <<"", "text/plain">> }
Methods == {"GET", "POST", "BAD METHOD"}
Paths == {"/api/generate", "/api/chat"}
Queries == {"", "a=1&b=%20"}

\* What a request body may hold under "model" and under "stream".
ModelFields == {Absent, Null, Str(""), Str("llama3"), Str("mistral"), Num(7)}
StreamFields == {Absent, Null, Bool(TRUE), Bool(FALSE), Str("yes")}
\* Request bodies: none, empty, not JSON, JSON but no object, and the objects.
RequestDocs ==
    {NoBody, EmptyDoc, NonObj("invalid", 5), NonObj("scalar", 4)}
    \cup {Obj(40, mf, sf, Absent, Absent) : mf \in ModelFields, sf \in StreamFields}
GenerateBody(stream) == Obj(40, Str("llama3"), stream, Absent, Absent)

\* What a response body may hold under "prompt_eval_count" and "eval_count".
TokenFields == {Absent, Null, NotInt64, Str("3")} \cup {Num(k) : k \in -1..MaxTokens}
\* Response bodies of up to MaxRespLen bytes.
ResponseDocs ==
    {EmptyDoc}
    \cup {NonObj("invalid", l) : l \in 1..MaxRespLen}
    \cup {Obj(l, Absent, Absent, p, e) : l \in 2..MaxRespLen, p \in TokenFields,
                                        e \in TokenFields}
\* Every way the upstream may answer a request and the client may take the answer.
Outcomes ==
    {[up |-> TransportError, cl |-> Client(-1)]}
    \cup {[up |-> Response(st, JSONHeader, d, rf), cl |-> Client(wf)] :
            st \in {200, 500}, d \in ResponseDocs,
            rf \in -1..MaxRespLen, wf \in -1..(MaxRespLen - 1)}
\* Four outcomes that between them take every path after the upstream call.
PlainOutcomes ==
    { [up |-> TransportError, cl |-> Client(-1)],
      [up |-> Response(200, JSONHeader, Obj(2, Absent, Absent, Num(1), Num(2)), -1),
       cl |-> Client(-1)],
      [up |-> Response(200, JSONHeader, Obj(2, Absent, Absent, Num(1), Num(2)), 1),
       cl |-> Client(-1)],
      [up |-> Response(500, JSONHeader, NonObj("invalid", 2), -1), cl |-> Client(1)] }

\* The relay in depth: three requests (buffered, streamed, streamed by default)
\* against every outcome, and the two requests that end before the upstream call.
FlowScenarios ==
    {Scenario(Request("POST", "/api/generate", "", JSONHeader, b, FALSE), o.up, o.cl) :
        b \in {GenerateBody(Bool(FALSE)), GenerateBody(Bool(TRUE)), EmptyDoc},
        o \in Outcomes}
    \cup {Scenario(Request(m, "/api/generate", "", JSONHeader, GenerateBody(sf), re),
                   o.up, o.cl) :
            m \in {"POST", "BAD METHOD"}, sf \in {Bool(FALSE), Absent},
            re \in BOOLEAN, o \in PlainOutcomes}
\* The payload sniffer in depth: every request body.
SniffScenarios ==
    {Scenario(Request("POST", p, "", JSONHeader, b, FALSE), o.up, o.cl) :
        p \in Paths, b \in RequestDocs, o \in PlainOutcomes}
\* The forwarder in depth: every method, path, query and header set.
ForwardScenarios ==
    {Scenario(Request(m, p, q, hd, b, FALSE), o.up, o.cl) :
        m \in Methods, p \in Paths, q \in Queries, hd \in InboundHeaders,
        b \in {GenerateBody(Bool(FALSE)), EmptyDoc}, o \in PlainOutcomes}

Configs ==
    { [base |-> DefaultBase,
       scenarios |-> FlowScenarios \cup SniffScenarios \cup ForwardScenarios],
      [base |-> PathBase, scenarios |-> ForwardScenarios],
      [base |-> SlashBase, scenarios |-> ForwardScenarios] }

\* One request against a fresh registry.
Init == InitOver(Configs, {1})
Spec == Init /\ [][Next]_vars


(***************************************************************************)
(* Properties.  Under Spec one request runs against a fresh registry, so   *)
(* what a vector holds is what that request added to it.                   *)
(***************************************************************************)
Handlers == DOMAIN scn
\* The handler returned (its deferred calls ran).
Done(h) == pc[h] = "done"
\* io.ReadAll(r.Body) at main.go:143 succeeded, or there was no body to read.
BodyReadOK(h) == ~(scn[h].r.Body.kind # "none" /\ scn[h].r.readErr)
\* The operations the handler has performed so far.
Ops(h) == {log[h][i].op : i \in DOMAIN log[h]}
\* An upstream response was received and its status sent on.
Relayed(h) == "WriteHeader" \in Ops(h)
\* The relay ended on a failed upstream read or a failed write to the client.
RelayFailed(h) ==
    \/ "ReadAllFailed" \in Ops(h)
    \/ \E i \in DOMAIN log[h] :
          log[h][i].op = "Write" /\ "ReadAll" \in Ops(h)
          /\ log[h][i].v < scn[h].up.Body.len
    \/ \E i \in DOMAIN log[h] :
          log[h][i].op = "CopyEnd" /\ log[h][i].v < scn[h].up.Body.len
    \/ \E i \in DOMAIN log[h] :
          log[h][i].op = "CopyEnd" /\ ReadFails(scn[h].up, log[h][i].v)
\* The endpoint, model and stream labels of a requests_total series.
Labels3(key4) == <<key4[1], key4[2], key4[4]>>

\* C1: a request whose body was read ends, on every outcome branch, with
\* requests_total incremented exactly once and request_duration_seconds
\* observed exactly once, under the same endpoint, model and stream labels.
C1_CountedOnceOnEveryBranch ==
    \A h \in Handlers :
        (Done(h) /\ BodyReadOK(h)) =>
            /\ Total(reqTotal) = 1
            /\ Total(reqDuration) = 1
            /\ {Labels3(k) : k \in DOMAIN reqTotal} = DOMAIN reqDuration

\* C2: when the upstream call fails the client gets 502, requests_total grows
\* by 1 under status "502", the duration is observed once, a single upstream
\* attempt was made, and the bytes-out and token series are untouched.
C2_TransportError ==
    \A h \in Handlers :
        (Done(h) /\ scn[h].up.err /\ "Do" \in Ops(h)) =>
            /\ w[h].status = 502
            /\ DOMAIN reqTotal =
                 {<<scn[h].r.Path, loc[h].model, "502", loc[h].streamLabel>>}
            /\ Total(reqTotal) = 1
            /\ DOMAIN reqDuration = {<<scn[h].r.Path, loc[h].model, loc[h].streamLabel>>}
            /\ Total(reqDuration) = 1
            /\ Len(sent[h]) = 1
            /\ bytesOut = NoSeries
            /\ tokensIn = NoSeries
            /\ tokensOut = NoSeries
C2_Witness ==
    \E h \in Handlers : Done(h) /\ scn[h].up.err /\ "Do" \in Ops(h) /\ Len(sent[h]) = 1

\* C3: when the inbound body cannot be read the client gets 400, nothing is
\* sent upstream, and none of the six series changes, at any point of the run.
C3_UnreadableBody ==
    \A h \in Handlers :
        ~BodyReadOK(h) =>
            /\ pc[h] \in {"ReadBody", "done"}
            /\ Done(h) => w[h].status = 400
            /\ sent[h] = <<>>
            /\ reqTotal = NoSeries
            /\ reqDuration = NoSeries
            /\ bytesIn = NoSeries
            /\ bytesOut = NoSeries
            /\ tokensIn = NoSeries
            /\ tokensOut = NoSeries
C3_Witness == \E h \in Handlers : ~BodyReadOK(h) /\ Done(h) /\ w[h].status = 400

\* C4: in both relay modes, once the request has finished, what it added to
\* response_bytes_out_total is the number of response body bytes written to
\* the client, also when a write or an upstream read failed partway.
C4_BytesOutIsBytesWritten ==
    \A h \in Handlers :
        (Done(h) /\ Relayed(h)) => Total(bytesOut) = w[h].written

\* C5: when the relay fails midway, in either mode, the status already sent
\* stays, requests_total is incremented once under that status, and
\* response_bytes_out_total grows by the bytes transferred so far.
C5_MidRelayFailureStillCounted ==
    \A h \in Handlers :
        (Done(h) /\ Relayed(h) /\ RelayFailed(h)) =>
            /\ w[h].status = scn[h].up.StatusCode
            /\ Total(reqTotal) = 1
            /\ \A k \in DOMAIN reqTotal : k[3] = Itoa(scn[h].up.StatusCode)
            /\ Total(bytesOut) = w[h].written


\* The request asks for a buffered reply: its body is an object whose stream is false.
AsksBuffered(doc) == doc.kind = "object" /\ doc.stream.t = "bool" /\ ~doc.stream.b
\* The handler ended, by returning or by panicking.
Ended(h) == pc[h] \in {"done", "panicked"}
\* Buffered mode, and io.ReadAll delivered the whole upstream body.
BufferedAndRead(h) == "ReadAll" \in Ops(h)
\* The value a document holds under a key when it is an integer there, else 0.
IntOrZero(fld) == IF fld.t = "int" THEN fld.n ELSE 0

\* C6 as stated: in buffered mode each token counter grows by exactly its
\* field whenever that field is an integer in the upstream body, whatever the
\* integer and whatever the other field, and is unchanged otherwise.
C6_TokensFollowEachIntegerField ==
    \A h \in Handlers :
        (Ended(h) /\ BufferedAndRead(h)) =>
            /\ Total(tokensIn) = IntOrZero(scn[h].up.Body.prompt_eval_count)
            /\ Total(tokensOut) = IntOrZero(scn[h].up.Body.eval_count)

\* The body is an object in which both token fields are absent, null or an int64.
DecodesCleanly(doc) ==
    /\ doc.kind = "object"
    /\ doc.prompt_eval_count.t \in {"absent", "null", "int"}
    /\ doc.eval_count.t \in {"absent", "null", "int"}
Negative(fld) == fld.t = "int" /\ fld.n < 0
\* C6 as amended: in buffered mode, once the upstream body is read in full,
\* prompt_tokens_total grows by exactly prompt_eval_count when the body
\* decodes without error and the field is a non-negative integer, and
\* completion_tokens_total by exactly eval_count when the body decodes without
\* error, the field is a non-negative integer and prompt_eval_count is not
\* negative; in every other case the counter keeps its value (a negative count
\* makes Counter.Add panic, which ends the handler).
C6_TokensWhenDecodedAndNonNegative ==
    \A h \in Handlers :
        LET doc == scn[h].up.Body
            key == Key2(h)
        IN  (Ended(h) /\ BufferedAndRead(h)) =>
            /\ Value(tokensIn, key) =
                 IF DecodesCleanly(doc) /\ ~Negative(doc.prompt_eval_count)
                 THEN IntOrZero(doc.prompt_eval_count) ELSE 0
            /\ Value(tokensOut, key) =
                 IF /\ DecodesCleanly(doc)
                    /\ ~Negative(doc.prompt_eval_count)
                    /\ ~Negative(doc.eval_count)
                 THEN IntOrZero(doc.eval_count) ELSE 0
            /\ Total(tokensIn) = Value(tokensIn, key)
            /\ Total(tokensOut) = Value(tokensOut, key)
            /\ (pc[h] = "panicked") <=>
                  (DecodesCleanly(doc)
                   /\ (Negative(doc.prompt_eval_count) \/ Negative(doc.eval_count)))
C6_Witness ==
    \E h \in Handlers :
        /\ Done(h) /\ BufferedAndRead(h)
        /\ scn[h].up.Body.prompt_eval_count = Num(1)
        /\ scn[h].up.Body.eval_count = Num(2)
        /\ Total(tokensIn) = 1
        /\ Total(tokensOut) = 2

ModelLabels ==
    {k[2] : k \in DOMAIN reqTotal \cup DOMAIN reqDuration \cup DOMAIN bytesIn
                  \cup DOMAIN bytesOut \cup DOMAIN tokensIn \cup DOMAIN tokensOut}
\* The stream labels under which any series that has one exists.
StreamLabels ==
    {k[3] : k \in DOMAIN reqDuration \cup DOMAIN bytesIn \cup DOMAIN bytesOut}
    \cup {k[4] : k \in DOMAIN reqTotal}
HasStringModel(doc) == doc.kind = "object" /\ doc.model.t = "string"

\* C8 as stated: the model label of the request's metrics is "unknown" if and
\* only if the body is absent, empty, not JSON or without a string model
\* field; otherwise it is the model string of the body.
C8_UnknownIffNoStringModel ==
    \A h \in Handlers : \A l \in ModelLabels :
        /\ (l = "unknown") <=> ~HasStringModel(scn[h].r.Body)
        /\ HasStringModel(scn[h].r.Body) => l = scn[h].r.Body.model.s
\* C8 as amended: the model label is the body's model string when the body is
\* a JSON object with a non-empty string model field, and "unknown" in every
\* other case, an empty model string included.
C8_ModelLabel ==
    \A h \in Handlers : \A l \in ModelLabels :
        l = IF HasStringModel(scn[h].r.Body) /\ scn[h].r.Body.model.s # ""
            THEN scn[h].r.Body.model.s
            ELSE "unknown"
C8_Witness ==
    \E h \in Handlers :
        /\ Done(h)
        /\ scn[h].r.Body.model = Str("")
        /\ \E k \in DOMAIN reqTotal : k[2] = "unknown"

HasBoolStream(doc) == doc.kind = "object" /\ doc.stream.t = "bool"
\* The stream flag the claim expects for a body.
ExpectedStream(doc) == IF HasBoolStream(doc) THEN doc.stream.b ELSE TRUE
CarriesAll(inbound, outbound) ==
    \A k \in DOMAIN inbound :
        /\ k \in DOMAIN outbound
        /\ \A i \in DOMAIN inbound[k] :
              \E j \in DOMAIN outbound[k] : outbound[k][j] = inbound[k][i]
\* Method, body and target of an upstream request q against the inbound r.
SameRequestLine(q, r) ==
    /\ q.Method = r.Method
    /\ q.Body = r.Body
    /\ q.URL.Scheme = upstreamURL.Scheme
    /\ q.URL.Host = upstreamURL.Host
    /\ q.URL.Path = Concat(TrimRight(upstreamURL.Path, "/")) \o r.Path
    /\ q.URL.RawQuery = r.RawQuery

\* C10 as stated: the upstream request has the inbound method and body, the
\* base followed by the inbound path and the inbound query, every inbound
\* header value, and Content-Type application/json only when the inbound
\* request carried no Content-Type.
C10_ForwardedUnchanged ==
    \A h \in Handlers : \A i \in DOMAIN sent[h] :
        LET q == sent[h][i]
            r == scn[h].r
        IN  /\ SameRequestLine(q, r)
            /\ CarriesAll(r.Header, q.Header)
            /\ IF "Content-Type" \in DOMAIN r.Header
               THEN q.Header = r.Header
               ELSE q.Header = r.Header @@ ("Content-Type" :> <<"application/json">>)
\* C10 as amended: method, body, target and query as stated; the outbound
\* header is the inbound one, except that Content-Type is the single value
\* application/json when the first inbound Content-Type value is missing or
\* empty (an inbound Content-Type whose first value is empty is replaced).
C10_Forwarded ==
    \A h \in Handlers : \A i \in DOMAIN sent[h] :
        LET q == sent[h][i]
            r == scn[h].r
            first == IF "Content-Type" \in DOMAIN r.Header
                     THEN r.Header["Content-Type"][1] ELSE ""
        IN  /\ SameRequestLine(q, r)
            /\ DOMAIN q.Header = DOMAIN r.Header \cup {"Content-Type"}
            /\ \A k \in DOMAIN r.Header \ {"Content-Type"} : q.Header[k] = r.Header[k]
            /\ q.Header["Content-Type"] =
                 IF first = "" THEN <<"application/json">> ELSE r.Header["Content-Type"]
C10_Witness ==
    \E h \in Handlers :
        /\ Len(sent[h]) = 1
        /\ scn[h].r.RawQuery # ""
        /\ upstreamURL = SlashBase
        /\ scn[h].r.Header = ("Content-Type" :> <<"", "text/plain">>)
        /\ sent[h][1].Header = JSONHeader

(***************************************************************************)
(* Concurrent requests.  net/http runs proxyHandler on a goroutine per     *)
(* request; the six vectors are the only state the handlers share.         *)
(***************************************************************************)
MaxHandlers == 2

\* The requests that run side by side: buffered and streamed ones under the
\* same labels, with different byte and token counts, a failed call, a
\* panic, and a request under another endpoint that ends before its call.
ConcScenarios ==
    LET post(b) == Request("POST", "/api/generate", "", JSONHeader, b, FALSE)
        tokens == Obj(2, Absent, Absent, Num(1), Num(2))
    IN  { Scenario(post(GenerateBody(Bool(FALSE))),
                   Response(200, JSONHeader, tokens, -1), Client(-1)),
          Scenario(post(GenerateBody(Bool(FALSE))),
                   Response(200, JSONHeader, Obj(2, Absent, Absent, Num(2), Num(-1)), -1),
                   Client(-1)),
          Scenario(post(GenerateBody(Bool(FALSE))), TransportError, Client(-1)),
          Scenario(post(GenerateBody(Bool(TRUE))),
                   Response(200, JSONHeader, tokens, -1), Client(-1)),
          Scenario(post(GenerateBody(Bool(TRUE))),
                   Response(200, JSONHeader, tokens, -1), Client(1)),
          Scenario(post(EmptyDoc),
                   Response(500, JSONHeader, NonObj("invalid", 1), -1), Client(-1)),
          Scenario(Request("BAD METHOD", "/api/chat", "", NoHeader, EmptyDoc, FALSE),
                   TransportError, Client(-1)) }

\* MaxHandlers requests in flight at once against a fresh registry.
InitConc == InitOver({[base |-> DefaultBase, scenarios |-> ConcScenarios]}, 1..MaxHandlers)
SpecConc == InitConc /\ [][Next]_vars

\* The six vectors as one value.
Registry ==
    [reqTotal |-> reqTotal, reqDuration |-> reqDuration, bytesIn |-> bytesIn,
     bytesOut |-> bytesOut, tokensIn |-> tokensIn, tokensOut |-> tokensOut]
FreshRegistry ==
    [reqTotal |-> NoSeries, reqDuration |-> NoSeries, bytesIn |-> NoSeries,
     bytesOut |-> NoSeries, tokensIn |-> NoSeries, tokensOut |-> NoSeries]

\* main.go:250  what io.Copy returns: the bytes relayed before the first
\* failed read, the first refused write, or the end of the body.
Copied(up, cl) ==
    LET goesOn(k) == /\ ~ReadFails(up, k)
                     /\ ~Abandoned("request", cl, "relay", k)
                     /\ cl.writeFailAt < 0 \/ k < cl.writeFailAt
    IN  CHOOSE n \in 0..up.Body.len :
            /\ \A k \in 0..(n - 1) : goesOn(k)
            /\ n = up.Body.len \/ ~goesOn(n)

\* main.go:133-260  proxyHandler from call to return with nothing beside it:
\* what one request adds to each vector, read off the handler branch by branch.
HandledAlone(s) ==
    LET r == s.r
        up == s.up
        payload == UnmarshalRequestPayload(r.Body)
        stream == StreamFlag(payload)
        failed == up.err \/ Abandoned("request", s.cl, "call", 0)
        key3 == <<r.Path, ModelLabel(payload), StreamLabel(stream)>>
        key2 == <<r.Path, ModelLabel(payload)>>
        key4 == <<r.Path, ModelLabel(payload),
                  Itoa(IF failed THEN StatusBadGateway ELSE up.StatusCode),
                  StreamLabel(stream)>>
        read == ~(r.Body.kind # "none" /\ r.readErr)
        called == read /\ ValidMethod(r.Method)
        answered == called /\ ~failed
        buffered == /\ answered /\ ~stream
                    /\ ~\E k \in 0..up.Body.len :
                          ReadFails(up, k) \/ Abandoned("request", s.cl, "relay", k)
        m == UnmarshalOllamaResponseMetrics(up.Body)
        prompt == buffered /\ TokensDecoded(m) /\ ~m.PromptEvalCount.isNil
        promptPanics == prompt /\ AddPanics(m.PromptEvalCount.n)
        eval == buffered /\ TokensDecoded(m) /\ ~promptPanics /\ ~m.EvalCount.isNil
        evalPanics == eval /\ AddPanics(m.EvalCount.n)
        counted == \/ called /\ failed
                   \/ answered /\ stream
                   \/ buffered /\ ~promptPanics /\ ~evalPanics
        one(cond, key, v) == IF cond THEN key :> v ELSE NoSeries
    IN  [bytesIn |-> one(read, key3, r.Body.len),
         bytesOut |-> IF buffered THEN key3 :> up.Body.len
                      ELSE one(answered /\ stream, key3, Copied(up, s.cl)),
         tokensIn |-> one(prompt, key2, IF promptPanics THEN 0 ELSE m.PromptEvalCount.n),
         tokensOut |-> one(eval, key2, IF evalPanics THEN 0 ELSE m.EvalCount.n),
         reqTotal |-> one(counted, key4, 1),
         reqDuration |-> one(counted, key3, 1)]

\* The additions of one request made to a vector that other requests have used.
RECURSIVE AddAll(_, _, _)
AddAll(vec, added, keys) ==
    IF keys = {} THEN vec
    ELSE LET k == CHOOSE x \in keys : TRUE
         IN  AddAll(CounterAdd(vec, k, added[k]), added, keys \ {k})
\* The registry after the requests of the handlers in order ran one at a time,
\* each from call to return before the next is called.
RECURSIVE OneAfterAnother(_, _)
OneAfterAnother(reg, order) ==
    IF order = <<>> THEN reg
    ELSE LET alone == HandledAlone(scn[Head(order)])
         IN  OneAfterAnother([f \in DOMAIN reg |-> AddAll(reg[f], alone[f], DOMAIN alone[f])],
                             Tail(order))
\* Every order in which the handlers can be taken.
Orders ==
    {o \in [1..Cardinality(Handlers) -> Handlers] :
        \A i, j \in DOMAIN o : o[i] = o[j] => i = j}

\* C11: once all concurrently handled requests have finished, every metric
\* series holds, whatever the interleaving of the handlers' steps was, the
\* value that handling the same requests one after another gives, in any order.
C11_AnyInterleavingAsOneAfterAnother ==
    (\A h \in Handlers : Ended(h)) =>
        \A o \in Orders : Registry = OneAfterAnother(FreshRegistry, o)
C11_Witness ==
    /\ \A h \in Handlers : Ended(h)
    /\ \E g, h \in Handlers :
          /\ g # h
          /\ scn[g] # scn[h]
          /\ Key3(g) = Key3(h)
          /\ Value(bytesOut, Key3(g)) = 3
          /\ Value(reqDuration, Key3(g)) = 2

\* Operation b happens only after operation a has happened.
Requires(h, a, b) ==
    \A j \in DOMAIN log[h] :
        log[h][j].op = b => \E i \in 1..(j - 1) : log[h][i].op = a
\* No operation a happens after an operation b.
NotAfter(h, a, b) ==
    \A i, j \in DOMAIN log[h] : (log[h][i].op = a /\ log[h][j].op = b) => i < j

\* C12: in buffered mode the upstream status and headers go to the client
\* before the upstream body is read, no body byte goes to the client before
\* the whole upstream body is read, then response_bytes_out_total is
\* incremented, then the token counters, then the body is written, and only
\* then requests_total is incremented and the duration observed.
C12_BufferedOrder ==
    \A h \in Handlers :
        (AsksBuffered(scn[h].r.Body) /\ Relayed(h)) =>
            /\ Requires(h, "WriteHeader", "ReadAll")
            /\ Requires(h, "WriteHeader", "ReadAllFailed")
            /\ {"ReadAll", "ReadAllFailed"} \cap Ops(h) # {} =>
                  /\ w[h].status = scn[h].up.StatusCode
                  /\ w[h].header = scn[h].up.Header
            /\ "ReadAll" \notin Ops(h) => w[h].written = 0 /\ "Write" \notin Ops(h)
            /\ Requires(h, "ReadAll", "bytesOut")
            /\ Requires(h, "bytesOut", "tokensIn")
            /\ Requires(h, "bytesOut", "tokensOut")
            /\ NotAfter(h, "tokensIn", "tokensOut")
            /\ Requires(h, "bytesOut", "Write")
            /\ NotAfter(h, "tokensIn", "Write")
            /\ NotAfter(h, "tokensOut", "Write")
            /\ Requires(h, "Write", "reqTotal")
            /\ Requires(h, "Write", "reqDuration")
C12_Witness ==
    \E h \in Handlers :
        /\ Done(h)
        /\ AsksBuffered(scn[h].r.Body)
        /\ {"tokensIn", "tokensOut", "reqTotal", "reqDuration"} \subseteq Ops(h)
        /\ w[h].written = scn[h].up.Body.len
        /\ w[h].written > 0

\* The metric operations other than the one on request_bytes_in_total.
LaterMetricOps == {"bytesOut", "tokensIn", "tokensOut", "reqTotal", "reqDuration", "panic"}
\* The values the handler gave to its operations named op, in their order.
ValuesOf(h, op) ==
    LET at == {i \in DOMAIN log[h] : log[h][i].op = op}
    IN  {log[h][i].v : i \in at}

InDecimal(code) ==
    CASE code = 200 -> "200"
      [] code = 400 -> "400"
      [] code = 500 -> "500"
      [] code = 502 -> "502"
      [] OTHER -> "?"

\* C14: every requests_total increment carries as status label the decimal
\* string of the status code the client was sent for that request: the
\* upstream's code when a response was received, also when the relay then
\* fails, and 502 when the upstream call failed.
C14_StatusLabelIsStatusSent ==
    \A h \in Handlers : \A i \in DOMAIN log[h] :
        log[h][i].op = "reqTotal" =>
            /\ log[h][i].key \in DOMAIN reqTotal
            /\ log[h][i].key[3] =
                 InDecimal(IF scn[h].up.err THEN 502 ELSE scn[h].up.StatusCode)
            /\ ~scn[h].up.err => w[h].status = scn[h].up.StatusCode
            /\ (scn[h].up.err /\ Done(h)) => w[h].status = 502
            /\ w[h].status # 0 => log[h][i].key[3] = InDecimal(w[h].status)
C14_Witness ==
    \E h \in Handlers :
        /\ Done(h)
        /\ RelayFailed(h)
        /\ w[h].status = 500
        /\ \E k \in DOMAIN reqTotal : k[3] = "500" /\ reqTotal[k] = 1

\* How often the handler has performed the operation so far.
Times(h, op) == Cardinality({i \in DOMAIN log[h] : log[h][i].op = op})

\* C15: for a request whose inbound body was read, request_bytes_in_total is
\* incremented exactly once, by the length of that body, after the body has
\* been read in full and before the upstream request is issued, also when
\* the upstream call then fails.
C15_BytesInOnceBeforeUpstream ==
    \A h \in Handlers :
        BodyReadOK(h) =>
            /\ Times(h, "bytesIn") <= 1
            /\ pc[h] \in {"ReadBody", "Sniff", "BytesIn"} =>
                  Times(h, "bytesIn") = 0 /\ bytesIn = NoSeries
            /\ pc[h] \notin {"ReadBody", "Sniff", "BytesIn"} =>
                  /\ Times(h, "bytesIn") = 1
                  /\ ValuesOf(h, "bytesIn") = {scn[h].r.Body.len}
                  /\ Total(bytesIn) = scn[h].r.Body.len
                  /\ Cardinality(DOMAIN bytesIn) = 1
                  /\ loc[h].bodyBuf = scn[h].r.Body
            /\ Requires(h, "bytesIn", "Do")
            /\ sent[h] # <<>> => Times(h, "bytesIn") = 1
C15_Witness ==
    \E h \in Handlers :
        /\ Done(h)
        /\ scn[h].up.err
        /\ "Do" \in Ops(h)
        /\ scn[h].r.Body.len = 40
        /\ Total(bytesIn) = 40

(***************************************************************************)
(* Clients that go away.  One request against a fresh registry, with       *)
(* every point at which its client may disconnect.                         *)
(***************************************************************************)
\* The outcomes of the relay, one with a negative token count among them,
\* each with a client that stays, leaves during the upstream call, or leaves
\* when some number of upstream body bytes has been delivered.
GoneOutcomes ==
    LET ups == {o.up : o \in PlainOutcomes}
               \cup {Response(200, JSONHeader, Obj(2, Absent, Absent, Num(1), Num(-1)), -1)}
        gones == {StaysOn, GoesAway("call", 0)}
                 \cup {GoesAway("relay", k) : k \in 0..MaxRespLen}
    IN  {[up |-> u, cl |-> ClientGone(wf, g)] : u \in ups, wf \in {-1, 1}, g \in gones}
GoneScenarios ==
    {Scenario(Request(m, "/api/generate", "", JSONHeader, b, re), o.up, o.cl) :
        m \in {"POST", "BAD METHOD"}, b \in {GenerateBody(Bool(FALSE)), EmptyDoc},
        re \in BOOLEAN, o \in GoneOutcomes}
InitGone == InitOver({[base |-> DefaultBase, scenarios |-> GoneScenarios]}, {1})
\* A handler's goroutine is scheduled as long as it has a step to take: no
\* step of the handler waits for anything but the calls the step models.
SpecGone == InitGone /\ [][Next]_vars /\ WF_vars(Next)

\* The upstream call returned a response.
ResponseObtained(h) == \E i \in DOMAIN log[h] : log[h][i].op = "Do" /\ log[h][i].v # 0

\* What holds at every moment of a request whose client may go away.
C16_AbandonedAndClosed ==
    \A h \in Handlers :
        LET gone == scn[h].cl.gone IN
        /\ (gone.phase = "call" /\ "Do" \in Ops(h)) =>
              /\ ~ResponseObtained(h)
              /\ ~Relayed(h)
              /\ loc[h].respBody = "none"
        /\ (gone.phase = "relay" /\ ResponseObtained(h)) =>
              /\ loc[h].n <= gone.after
              /\ w[h].written <= gone.after
              /\ gone.after <= scn[h].up.Body.len =>
                    "ReadAll" \notin Ops(h) /\ loc[h].respBuf = NoBody
        /\ (Ended(h) /\ ResponseObtained(h)) => loc[h].respBody = "closed"
        /\ (~Ended(h) /\ ResponseObtained(h)) => loc[h].respBody = "open"
        /\ ~ResponseObtained(h) => loc[h].respBody = "none"

\* C16: when the client disconnects while the upstream call or the relay is
\* in progress, the call or the copy is abandoned, the handler terminates,
\* and the upstream response body, if one was obtained, is closed; on every
\* path on which a response was obtained its body is closed when the handler
\* has returned.
C16_ClientGone ==
    /\ []C16_AbandonedAndClosed
    /\ <>(\A h \in Handlers : Ended(h))
C16_Witness ==
    \E h \in Handlers :
        /\ Done(h)
        /\ scn[h].cl.gone = GoesAway("relay", 1)
        /\ scn[h].up.Body.len = 2
        /\ ~scn[h].up.err
        /\ scn[h].up.readFailAt = -1
        /\ scn[h].cl.writeFailAt = -1
        /\ "CopyEnd" \in Ops(h)
        /\ w[h].written = 1
        /\ loc[h].respBody = "closed"

\* json.Unmarshal of the request body returns an error.
DecodeFails(doc) == UnmarshalRequestPayload(doc).err
\* The handler has extracted model and stream from the body.
Sniffed(h) == pc[h] \notin {"ReadBody", "Sniff"}
\* The request went upstream, body unchanged, whenever its method allows a call.
StillForwarded(h) ==
    (Ended(h) /\ ValidMethod(scn[h].r.Method)) =>
        /\ Len(sent[h]) = 1
        /\ sent[h][1].Body = scn[h].r.Body

Counters == {"reqTotal", "bytesIn", "bytesOut", "tokensIn", "tokensOut"}

\* C18: over any sequence of requests no series of requests_total,
\* request_bytes_in_total, response_bytes_out_total, prompt_tokens_total or
\* completion_tokens_total ever goes down or away; in particular a buffered
\* upstream body with a negative prompt_eval_count or eval_count does not
\* lower a token counter.
C18_CountersNeverDecrease ==
    [][\A f \in Counters : \A k \in DOMAIN Registry[f] :
          /\ k \in DOMAIN Registry'[f]
          /\ Registry'[f][k] >= Registry[f][k]
          /\ Registry[f][k] >= 0]_vars
C18_Witness ==
    \E g, h \in Handlers :
        /\ Done(g)
        /\ pc[h] = "panicked"
        /\ Negative(scn[h].up.Body.eval_count)
        /\ Key2(g) = Key2(h)
        /\ tokensOut[Key2(h)] = 2
        /\ tokensIn[Key2(h)] = 3

\* The model label the claims expect for a body.
ExpectedModel(doc) ==
    IF HasStringModel(doc) /\ doc.model.s # "" THEN doc.model.s ELSE "unknown"
\* The vectors that carry a stream label, and where a key of theirs has it.
Streamed == {"reqTotal", "reqDuration", "bytesIn", "bytesOut"}
StreamOf(f, k) == IF f = "reqTotal" THEN k[4] ELSE k[3]
\* The key of a series of vector f carries the labels of handler h's request.
OwnLabels(h, f, k) ==
    /\ k[1] = scn[h].r.Path
    /\ k[2] = loc[h].model
    /\ k[2] = ExpectedModel(scn[h].r.Body)
    /\ f \in Streamed =>
          /\ StreamOf(f, k) = loc[h].streamLabel
          /\ StreamOf(f, k) = IF ExpectedStream(scn[h].r.Body) THEN "true" ELSE "false"
\* All emissions of handler h so far carry one endpoint, model and stream label.
OneLabelSet(h) ==
    \A i, j \in DOMAIN log[h] :
        LET a == log[h][i].key
            b == log[h][j].key
        IN  (a # <<>> /\ b # <<>>) =>
              /\ a[1] = b[1] /\ a[2] = b[2]
              /\ (Len(a) > 2 /\ Len(b) > 2) => a[Len(a)] = b[Len(b)]

\* C19: a request only ever creates or changes series whose endpoint, model
\* and stream labels are its own path, extracted model and extracted stream
\* flag; all its emissions carry the same three values; every series with
\* another endpoint, model or stream label is left as it is by that request.
C19_OnlyOwnSeries ==
    [][\E h \in Handlers :
          /\ \A g \in Handlers \ {h} : log'[g] = log[g] /\ pc'[g] = pc[g]
          /\ OneLabelSet(h)'
          /\ \A f \in DOMAIN Registry : \A k \in DOMAIN Registry'[f] :
                (k \notin DOMAIN Registry[f] \/ Registry'[f][k] # Registry[f][k]) =>
                    OwnLabels(h, f, k)']_vars
C19_Witness ==
    \E g, h \in Handlers :
        /\ Ended(g) /\ Ended(h)
        /\ loc[g].model = "llama3" /\ loc[h].model = "unknown"
        /\ loc[g].streamLabel = "false" /\ loc[h].streamLabel = "true"
        /\ Value(reqDuration, Key3(g)) = 1
        /\ Value(reqDuration, Key3(h)) = 1
        /\ Value(tokensOut, Key2(g)) = 2
        /\ Key2(h) \notin DOMAIN tokensOut

=============================================================================
